---- MODULE Spec2Model ----
(***************************************************************************)
(* Model of the Equity Valuation Engine: the valuation formulas of         *)
(* Comps_Model.py, DCF_Model.py and Models.py, and the control flow of the *)
(* Streamlit script Dashboard.py.                                          *)
(*                                                                         *)
(* Numbers.  The program computes with Python floats.  The model computes  *)
(* with exact rationals <<numerator, denominator>> in lowest terms with a  *)
(* positive denominator, so every formula is checked as the arithmetic it  *)
(* denotes; IEEE-754 rounding is not modelled.  A float division by zero   *)
(* raises ZeroDivisionError in Python and is modelled as that outcome.     *)
(***************************************************************************)
EXTENDS Integers, Sequences, FiniteSets, TLC

VARIABLES
    \* Comps_Model.py, the script of lines 43-63
    peers,              \* the caller's peer list
    metric,             \* the metric key passed to compute_median_multiple
    multiples,          \* the local list of compute_median_multiple
    median_ret,         \* outcome of compute_median_multiple
    comps_ret,          \* outcome of apply_comps
    \* DCF_Model.py
    dcf_call,           \* the function called and its arguments
    dcf_ret,            \* its outcome
    \* Models.py, run_lbo_model
    lbo_args,           \* the arguments of the current call
    lbo_pc,             \* "idle", "enter", "loop" or "done"
    year,               \* the loop variable of line 48
    annual_principal_payment,
    outstanding_debt,
    debt_schedule,
    lbo_ret,            \* outcome of the current call
    lbo_prev,           \* arguments and outcome of the call before it
    \* Dashboard.py, one state per finished run of the script
    valuation_method,   \* the sidebar selectbox
    dcf_inputs,         \* the number inputs of the DCF view
    lbo_inputs,         \* the number inputs of the LBO view
    pressed,            \* the button whose press caused the run, or "none"
    rendered,           \* the buttons the run put on the page
    shown,              \* the outcome the run displayed
    export_call,        \* the arguments of export_dcf_results in the run
    csv_saved           \* whether the run called save_dataframes

comps_vars == <<peers, metric, multiples, median_ret, comps_ret>>
dcf_vars == <<dcf_call, dcf_ret>>
lbo_vars == <<lbo_args, lbo_pc, year, annual_principal_payment, outstanding_debt,
              debt_schedule, lbo_ret, lbo_prev>>
dash_vars == <<valuation_method, dcf_inputs, lbo_inputs, pressed, rendered, shown,
               export_call, csv_saved>>
vars == <<comps_vars, dcf_vars, lbo_vars, dash_vars>>

(***************************************************************************)
(* Bounds of the model.                                                    *)
(***************************************************************************)
MaxPeers == 3
MaxYears == 3
MaxFlows == 3

(***************************************************************************)
(* Rational arithmetic standing for Python's float operators.              *)
(***************************************************************************)
Abs(i) == IF i < 0 THEN -i ELSE i

RECURSIVE GCD(_, _)
GCD(a, b) == IF b = 0 THEN a ELSE GCD(b, a % b)

Rat(n, d) ==
    LET g == GCD(Abs(n), Abs(d))
        s == IF d < 0 THEN -1 ELSE 1
    IN  <<(s * n) \div g, (s * d) \div g>>

Zero == <<0, 1>>
One == <<1, 1>>
Two == <<2, 1>>

RAdd(x, y) == Rat(x[1] * y[2] + y[1] * x[2], x[2] * y[2])
RSub(x, y) == Rat(x[1] * y[2] - y[1] * x[2], x[2] * y[2])
RMul(x, y) == Rat(x[1] * y[1], x[2] * y[2])
RNeg(x) == <<-x[1], x[2]>>
\* x / y for y # 0; the callers test the divisor first, as Python raises
RDiv(x, y) == Rat(x[1] * y[2], x[2] * y[1])
RLe(x, y) == x[1] * y[2] <= y[1] * x[2]
RLt(x, y) == x[1] * y[2] < y[1] * x[2]
RMax(x, y) == IF RLt(x, y) THEN y ELSE x

RECURSIVE RPow(_, _)
RPow(x, k) == IF k = 0 THEN One ELSE RMul(x, RPow(x, k - 1))

\* Python's built-in sum over a list: left to right, starting at 0
RECURSIVE RSum(_)
RSum(s) == IF s = <<>> THEN Zero ELSE RAdd(RSum(SubSeq(s, 1, Len(s) - 1)), s[Len(s)])

\* The outcome of a call: a returned value or a raised exception
Returned(v) == [status |-> "returned", value |-> v]
Raised(e) == [status |-> "raised", exc |-> e]
NoCall == [status |-> "none"]

(***************************************************************************)
(* Comps_Model.py                                                          *)
(***************************************************************************)
\* Python's None; not a rational (denominator 0)
None == <<0, 0>>

Metrics == {"EV/EBITDA", "P/E"}

\* list.sort() on numbers: ascending order, by insertion
RECURSIVE Insert(_, _)
Insert(v, s) ==
    IF s = <<>> THEN <<v>>
    ELSE IF RLe(v, s[1]) THEN <<v>> \o s
    ELSE <<s[1]>> \o Insert(v, Tail(s))

RECURSIVE Sort(_)
Sort(s) == IF s = <<>> THEN <<>> ELSE Insert(s[1], Sort(Tail(s)))

\* peer.get(metric): None when the key is absent
Get(peer, m) == IF m \in DOMAIN peer THEN peer[m] ELSE None

\* peer[metric]: raises KeyError when the key is absent (marked, not a rational)
KeyError == <<1, 0>>
Subscript(peer, m) == IF m \in DOMAIN peer THEN peer[m] ELSE KeyError

\* mutant of HasMetric: the filter `metric in peer`, which keeps a None
HasMetric_KeyOnly(peer, m) == m \in DOMAIN peer

\* the filter of the comprehension: peer.get(metric) is not None
HasMetric(peer, m) == Get(peer, m) # None

\* [peer[metric] for peer in peers if peer.get(metric) is not None]
RECURSIVE Multiples(_, _)
Multiples(ps, m) ==
    IF ps = <<>> THEN <<>>
    ELSE IF HasMetric(ps[1], m) THEN <<Subscript(ps[1], m)>> \o Multiples(Tail(ps), m)
    ELSE Multiples(Tail(ps), m)

\* mutant of Median: the even branch forgotten, always multiples[mid]
Median_NoEvenBranch(sorted) == sorted[(Len(sorted) \div 2) + 1]

\* the index (0-based in Python, hence + 1) and parity branch of the median
Median(sorted) ==
    LET n == Len(sorted)
        mid == n \div 2
    IN  IF n % 2 = 0
        THEN RDiv(RAdd(sorted[(mid - 1) + 1], sorted[mid + 1]), Two)
        ELSE sorted[mid + 1]

\* A KeyError of the comprehension leaves the function at line 13; comparing
\* None with a number in sort() raises TypeError at line 18.
compute_median_multiple(ps, m) ==
    LET ms == Multiples(ps, m)
    IN  IF \E i \in 1..Len(ms) : ms[i] = KeyError THEN Raised("KeyError")
        ELSE IF ms = <<>> THEN Returned(None)
        ELSE IF Len(ms) > 1 /\ (\E i \in 1..Len(ms) : ms[i] = None) THEN Raised("TypeError")
        ELSE Returned(Median(Sort(ms)))

\* the local list when the function is left: sorted once line 18 has run
MultiplesLocal(ps, m) ==
    LET ms == Multiples(ps, m)
    IN  IF compute_median_multiple(ps, m).status = "returned" /\ ms # <<>>
        THEN Sort(ms) ELSE ms

\* float * None raises TypeError
apply_comps(target_metric_value, median_multiple) ==
    IF median_multiple = None THEN Raised("TypeError")
    ELSE Returned(RMul(target_metric_value, median_multiple))

\* The values a peer may hold for a metric, and the peer records built from
\* them: every record has a ticker; a metric key is absent, None or a number.
MultipleValues == {<<1, 1>>, <<2, 1>>, <<4, 1>>}
TargetValues == {<<3, 1>>, <<-1, 2>>}

PeerRecords ==
    LET base == ("ticker" :> <<7, 1>>)
        withEv == {base} \cup {base @@ ("EV/EBITDA" :> v) : v \in MultipleValues \cup {None}}
    IN  withEv \cup {r @@ ("P/E" :> <<3, 1>>) : r \in withEv}

PeerLists == UNION {[1..n -> PeerRecords] : n \in 0..MaxPeers}

\* mutant of PeersAfterCall: the caller's list itself is sorted by the metric
\* (peers.sort(key=...)), a peer without a value counting as 0
RECURSIVE InsertPeer(_, _, _)
InsertPeer(peer, ps, m) ==
    LET Key(q) == IF HasMetric(q, m) THEN q[m] ELSE Zero
    IN  IF ps = <<>> THEN <<peer>>
        ELSE IF RLe(Key(peer), Key(ps[1])) THEN <<peer>> \o ps
        ELSE <<ps[1]>> \o InsertPeer(peer, Tail(ps), m)

RECURSIVE PeersAfterCall_SortedInPlace(_, _)
PeersAfterCall_SortedInPlace(ps, m) ==
    IF ps = <<>> THEN <<>>
    ELSE InsertPeer(ps[1], PeersAfterCall_SortedInPlace(Tail(ps), m), m)

\* what the call leaves in the caller's list: the comprehension of line 13
\* builds a new list, and line 18 sorts that one
PeersAfterCall(ps, m) == ps

\* median = compute_median_multiple(peers, metric) (lines 13-26)
CallMedian ==
    /\ median_ret = NoCall
    /\ median_ret' = compute_median_multiple(peers, metric)
    /\ multiples' = MultiplesLocal(peers, metric)
    /\ peers' = PeersAfterCall(peers, metric)
    /\ UNCHANGED <<metric, comps_ret, dcf_vars, lbo_vars, dash_vars>>

\* enterprise_value = apply_comps(target, median) (lines 40, 60)
CallApplyComps ==
    /\ median_ret.status = "returned"
    /\ comps_ret = NoCall
    /\ \E t \in TargetValues : comps_ret' = apply_comps(t, median_ret.value)
    /\ UNCHANGED <<peers, metric, multiples, median_ret, dcf_vars, lbo_vars, dash_vars>>

CompsNext == CallMedian \/ CallApplyComps

(***************************************************************************)
(* DCF_Model.py                                                            *)
(***************************************************************************)
\* lines 20-21
calculate_fcf(ebit, tax_rate, da, capex, wc) ==
    LET nopat == RMul(ebit, RSub(One, tax_rate))
    IN  RSub(RSub(RAdd(nopat, da), capex), wc)

\* mutant of project_fcf: range(0, years), the base year as first value
project_fcf_FromBaseYear(initial_fcf, growth_rate, years) ==
    [i \in 1..years |-> RMul(initial_fcf, RPow(RAdd(One, growth_rate), i - 1))]

\* mutant of project_fcf: a horizon below one year is raised to one year
project_fcf_AtLeastOneYear(initial_fcf, growth_rate, years) ==
    [i \in 1..(IF years < 1 THEN 1 ELSE years) |->
        RMul(initial_fcf, RPow(RAdd(One, growth_rate), i))]

\* line 36: one value per i in range(1, years + 1)
project_fcf(initial_fcf, growth_rate, years) ==
    [i \in 1..years |-> RMul(initial_fcf, RPow(RAdd(One, growth_rate), i))]

\* mutant of calculate_terminal_value: a guard rejecting wacc <= growth
calculate_terminal_value_Guarded(last_fcf, perpetual_growth_rate, wacc) ==
    IF RLe(wacc, perpetual_growth_rate) THEN Raised("ValueError")
    ELSE Returned(RDiv(RMul(last_fcf, RAdd(One, perpetual_growth_rate)),
                       RSub(wacc, perpetual_growth_rate)))

\* line 51: a float division, ZeroDivisionError on a zero divisor
calculate_terminal_value(last_fcf, perpetual_growth_rate, wacc) ==
    IF RSub(wacc, perpetual_growth_rate) = Zero THEN Raised("ZeroDivisionError")
    ELSE Returned(RDiv(RMul(last_fcf, RAdd(One, perpetual_growth_rate)),
                       RSub(wacc, perpetual_growth_rate)))

\* numpy_financial.npv(rate, values): sum of values[t] / (1 + rate)^t over
\* t = 0 .. len(values) - 1, the first value at t = 0
npv(rate, values) ==
    RSum([k \in 1..Len(values) |-> RDiv(values[k], RPow(RAdd(One, rate), k - 1))])

\* line 67
discount_cash_flows(cash_flows, wacc) == npv(wacc, cash_flows)

\* line 107: fcf / (1 + wacc) ** (i + 1) for i, fcf in enumerate(...), i from 0
DiscountedFcf(fcf_projections, wacc) ==
    [k \in 1..Len(fcf_projections) |->
        RDiv(fcf_projections[k], RPow(RAdd(One, wacc), (k - 1) + 1))]

\* mutant of DiscountedTerminal: the terminal value discounted at year n
DiscountedTerminal_AtYearN(terminal_value, wacc, projection_years) ==
    RDiv(terminal_value, RPow(RAdd(One, wacc), projection_years))

\* line 108
DiscountedTerminal(terminal_value, wacc, projection_years) ==
    RDiv(terminal_value, RPow(RAdd(One, wacc), projection_years + 1))

\* lines 98-111; fcf_projections[-1] raises IndexError on an empty list
calculate_dcf(a) ==
    LET base_fcf == calculate_fcf(a.ebit, a.tax_rate, a.da, a.capex, a.wc)
        fcf_projections == project_fcf(base_fcf, a.growth_rate, a.projection_years)
    IN  IF fcf_projections = <<>> THEN Raised("IndexError")
        ELSE
          LET tv == calculate_terminal_value(fcf_projections[Len(fcf_projections)],
                                             a.perpetual_growth_rate, a.wacc)
          IN  IF tv.status = "raised" THEN tv
              ELSE
                LET total_value ==
                        RAdd(RSum(DiscountedFcf(fcf_projections, a.wacc)),
                             DiscountedTerminal(tv.value, a.wacc, a.projection_years))
                IN  Returned(<<total_value, fcf_projections, tv.value>>)

\* The inputs the functions are called with.  Rates keep 1 + rate > 0.
Amounts == {<<100, 1>>, <<-40, 1>>, <<0, 1>>}
Rates == {<<-1, 2>>, <<0, 1>>, <<1, 2>>, <<1, 1>>}
Horizons == 0..MaxYears
FlowLists == UNION {[1..n -> Amounts] : n \in 0..MaxFlows}

DcfArgs ==
    [ebit : {<<100, 1>>, <<-40, 1>>}, tax_rate : {<<0, 1>>, <<1, 2>>},
     da : {<<10, 1>>}, capex : {<<20, 1>>, <<30, 1>>}, wc : {<<0, 1>>},
     growth_rate : {<<0, 1>>, <<1, 2>>}, projection_years : Horizons,
     perpetual_growth_rate : {<<0, 1>>, <<1, 2>>},
     wacc : {<<0, 1>>, <<1, 2>>, <<1, 1>>}]

DcfCalls ==
    {[fn |-> "calculate_dcf", args |-> a] : a \in DcfArgs}
    \cup {[fn |-> "calculate_fcf", args |-> a] :
            a \in [ebit : Amounts, tax_rate : {<<0, 1>>, <<1, 2>>}, da : {<<10, 1>>},
                    capex : {<<20, 1>>, <<30, 1>>}, wc : {<<0, 1>>, <<5, 1>>}]}
    \cup {[fn |-> "project_fcf", args |-> a] :
            a \in [initial_fcf : Amounts, growth_rate : Rates, years : Horizons]}
    \cup {[fn |-> "calculate_terminal_value", args |-> a] :
            a \in [last_fcf : Amounts, perpetual_growth_rate : Rates, wacc : Rates]}
    \cup {[fn |-> "discount_cash_flows", args |-> a] :
            a \in [cash_flows : FlowLists, wacc : Rates]}

CallCalculateFcf ==
    /\ dcf_call.fn = "calculate_fcf" /\ dcf_ret = NoCall
    /\ LET a == dcf_call.args
       IN  dcf_ret' = Returned(calculate_fcf(a.ebit, a.tax_rate, a.da, a.capex, a.wc))
    /\ UNCHANGED <<dcf_call, comps_vars, lbo_vars, dash_vars>>

CallProjectFcf ==
    /\ dcf_call.fn = "project_fcf" /\ dcf_ret = NoCall
    /\ LET a == dcf_call.args
       IN  dcf_ret' = Returned(project_fcf(a.initial_fcf, a.growth_rate, a.years))
    /\ UNCHANGED <<dcf_call, comps_vars, lbo_vars, dash_vars>>

CallTerminalValue ==
    /\ dcf_call.fn = "calculate_terminal_value" /\ dcf_ret = NoCall
    /\ LET a == dcf_call.args
       IN  dcf_ret' = calculate_terminal_value(a.last_fcf, a.perpetual_growth_rate, a.wacc)
    /\ UNCHANGED <<dcf_call, comps_vars, lbo_vars, dash_vars>>

CallDiscountCashFlows ==
    /\ dcf_call.fn = "discount_cash_flows" /\ dcf_ret = NoCall
    /\ LET a == dcf_call.args
       IN  dcf_ret' = Returned(discount_cash_flows(a.cash_flows, a.wacc))
    /\ UNCHANGED <<dcf_call, comps_vars, lbo_vars, dash_vars>>

CallCalculateDcf ==
    /\ dcf_call.fn = "calculate_dcf" /\ dcf_ret = NoCall
    /\ dcf_ret' = calculate_dcf(dcf_call.args)
    /\ UNCHANGED <<dcf_call, comps_vars, lbo_vars, dash_vars>>

DcfNext ==
    \/ CallCalculateFcf
    \/ CallProjectFcf
    \/ CallTerminalValue
    \/ CallDiscountCashFlows
    \/ CallCalculateDcf

(***************************************************************************)
(* Models.py                                                               *)
(***************************************************************************)
\* numpy_financial.irr(values), line 74: the rate at which the net present
\* value of the vector is zero.  The root is not computed; the result is
\* kept as the application of irr to its argument.
irr(values) == [irr_of |-> values]

\* lines 39-40
EquityInvestment(a) == RMul(a.purchase_price, RSub(One, a.debt_ratio))
InitialDebt(a) == RMul(a.purchase_price, a.debt_ratio)

\* mutant of AnnualPrincipalPayment: one instalment too many
AnnualPrincipalPayment_OffByOne(initial_debt, years) ==
    RDiv(initial_debt, <<years + 1, 1>>)

\* line 43, for years # 0
AnnualPrincipalPayment(initial_debt, years) == RDiv(initial_debt, <<years, 1>>)

\* mutant of LoopBody: the interest of the year is added to the balance
LoopBody_InterestAccrues(a, y, principal, outstanding, schedule) ==
    LET interest_expense == RMul(outstanding, a.interest_rate)
        remaining == RSub(RAdd(outstanding, interest_expense), principal)
    IN  [outstanding_debt |-> remaining,
         debt_schedule |-> Append(schedule,
            [year |-> y, interest_expense |-> interest_expense,
             principal_payment |-> principal,
             remaining_debt |-> RMax(remaining, Zero)])]

\* lines 49-58: one iteration of the amortization loop
LoopBody(a, y, principal, outstanding, schedule) ==
    LET interest_expense == RMul(outstanding, a.interest_rate)
        remaining == RSub(outstanding, principal)
    IN  [outstanding_debt |-> remaining,
         debt_schedule |-> Append(schedule,
            [year |-> y, interest_expense |-> interest_expense,
             principal_payment |-> principal,
             remaining_debt |-> RMax(remaining, Zero)])]

\* lines 61-67
ExitEquityValue(a, outstanding) ==
    LET final_ebitda == RMul(a.initial_ebitda, RPow(RAdd(One, a.ebitda_growth_rate), a.years))
        exit_enterprise_value == RMul(a.exit_multiple, final_ebitda)
    IN  RSub(exit_enterprise_value, RMax(outstanding, Zero))

\* mutant of EquityCashFlows: one entry per year, the exit in the last
EquityCashFlows_OnePerYear(equity_investment, exit_equity_value, years) ==
    <<RNeg(equity_investment)>> \o [i \in 1..(years - 2) |-> Zero] \o <<exit_equity_value>>

\* line 71: [-equity_investment] + [0] * (years - 1) + [exit_equity_value]
EquityCashFlows(equity_investment, exit_equity_value, years) ==
    <<RNeg(equity_investment)>> \o [i \in 1..(years - 1) |-> Zero] \o <<exit_equity_value>>

LboArgs ==
    [purchase_price : {<<100, 1>>, <<200, 1>>},
     debt_ratio : {<<-1, 2>>, <<1, 2>>, <<3, 5>>},
     initial_ebitda : {<<12, 1>>},
     ebitda_growth_rate : {<<0, 1>>, <<1, 2>>},
     exit_multiple : {<<8, 1>>},
     years : Horizons,
     interest_rate : {<<1, 10>>, <<1, 5>>}]

\* a caller invokes run_lbo_model (line 89); the finished call is remembered
LboCall ==
    /\ lbo_pc \in {"idle", "done"}
    /\ \E a \in LboArgs : lbo_args' = a
    /\ lbo_prev' = IF lbo_pc = "done" THEN [args |-> lbo_args, ret |-> lbo_ret] ELSE lbo_prev
    /\ lbo_pc' = "enter"
    /\ year' = 0
    /\ annual_principal_payment' = Zero
    /\ outstanding_debt' = Zero
    /\ debt_schedule' = <<>>
    /\ lbo_ret' = NoCall
    /\ UNCHANGED <<comps_vars, dcf_vars, dash_vars>>

\* lines 39-47; initial_debt / years raises ZeroDivisionError for years = 0
LboEnter ==
    /\ lbo_pc = "enter"
    /\ IF lbo_args.years = 0
       THEN /\ lbo_ret' = Raised("ZeroDivisionError")
            /\ lbo_pc' = "done"
            /\ UNCHANGED <<year, annual_principal_payment, outstanding_debt>>
       ELSE /\ annual_principal_payment' =
                    AnnualPrincipalPayment(InitialDebt(lbo_args), lbo_args.years)
            /\ outstanding_debt' = InitialDebt(lbo_args)
            /\ year' = 1
            /\ lbo_pc' = "loop"
            /\ UNCHANGED lbo_ret
    /\ debt_schedule' = <<>>
    /\ UNCHANGED <<lbo_args, lbo_prev, comps_vars, dcf_vars, dash_vars>>

\* lines 48-58: the iteration for the current year
LboLoop ==
    /\ lbo_pc = "loop"
    /\ year <= lbo_args.years
    /\ LET l == LoopBody(lbo_args, year, annual_principal_payment,
                         outstanding_debt, debt_schedule)
       IN  /\ outstanding_debt' = l.outstanding_debt
           /\ debt_schedule' = l.debt_schedule
    /\ year' = year + 1
    /\ UNCHANGED <<lbo_args, lbo_pc, annual_principal_payment, lbo_ret, lbo_prev,
                   comps_vars, dcf_vars, dash_vars>>

\* lines 60-76, once the loop is exhausted
LboReturn ==
    /\ lbo_pc = "loop"
    /\ year > lbo_args.years
    /\ LET exit_equity_value == ExitEquityValue(lbo_args, outstanding_debt)
           equity_cash_flows == EquityCashFlows(EquityInvestment(lbo_args),
                                                exit_equity_value, lbo_args.years)
       IN  lbo_ret' = Returned(<<equity_cash_flows, irr(equity_cash_flows), exit_equity_value>>)
    /\ lbo_pc' = "done"
    /\ UNCHANGED <<lbo_args, year, annual_principal_payment, outstanding_debt,
                   debt_schedule, lbo_prev, comps_vars, dcf_vars, dash_vars>>

LboNext == LboCall \/ LboEnter \/ LboLoop \/ LboReturn

(***************************************************************************)
(* Dashboard.py                                                            *)
(*                                                                         *)
(* Streamlit runs the script from top to bottom on every user event.       *)
(* st.button(label) puts the button on the page and returns True only in   *)
(* the run caused by a press of that button; a press causes one run.       *)
(***************************************************************************)
\* run_lbo_model as one call: the loop of lines 48-58 from year y on
RECURSIVE LoopFrom(_, _, _, _, _)
LoopFrom(a, y, principal, outstanding, schedule) ==
    IF y > a.years THEN [outstanding_debt |-> outstanding, debt_schedule |-> schedule]
    ELSE LET l == LoopBody(a, y, principal, outstanding, schedule)
         IN  LoopFrom(a, y + 1, principal, l.outstanding_debt, l.debt_schedule)

\* lines 39-76
run_lbo_model(a) ==
    IF a.years = 0 THEN Raised("ZeroDivisionError")
    ELSE LET l == LoopFrom(a, 1, AnnualPrincipalPayment(InitialDebt(a), a.years),
                           InitialDebt(a), <<>>)
             exit_equity_value == ExitEquityValue(a, l.outstanding_debt)
             equity_cash_flows == EquityCashFlows(EquityInvestment(a), exit_equity_value, a.years)
         IN  Returned(<<equity_cash_flows, irr(equity_cash_flows), exit_equity_value>>)

ValuationMethods ==
    {"Discounted Cash Flow (DCF)", "Comparable Companies (Comps)",
     "Leveraged Buyout (LBO)", "Data Collection"}

\* lines 61-67: the static peer group
DashboardPeers ==
    <<("ticker" :> <<1, 1>>) @@ ("EV/EBITDA" :> <<18, 1>>),
      ("ticker" :> <<2, 1>>) @@ ("EV/EBITDA" :> <<20, 1>>),
      ("ticker" :> <<3, 1>>) @@ ("EV/EBITDA" :> <<19, 1>>),
      ("ticker" :> <<4, 1>>) @@ ("EV/EBITDA" :> <<22, 1>>),
      ("ticker" :> <<5, 1>>) @@ ("EV/EBITDA" :> <<16, 1>>)>>

\* what the user can type into the number inputs
DashboardDcfInputs ==
    [ebit : {<<100, 1>>}, tax_rate : {<<1, 2>>}, da : {<<10, 1>>}, capex : {<<20, 1>>},
     wc : {<<0, 1>>}, growth_rate : {<<1, 2>>}, projection_years : Horizons,
     perpetual_growth_rate : {<<1, 2>>}, wacc : {<<1, 2>>, <<1, 1>>}]

DashboardLboInputs ==
    [purchase_price : {<<100, 1>>}, debt_ratio : {<<3, 5>>}, initial_ebitda : {<<12, 1>>},
     ebitda_growth_rate : {<<1, 2>>}, exit_multiple : {<<8, 1>>}, years : Horizons,
     interest_rate : {<<1, 10>>}]

\* lines 51-54
ExportButton(p, r) ==
    IF p = "Export DCF Results to Excel"
    THEN [filename |-> "outputs/dcf_results.xlsx", fcf_projections |-> r.value[2],
          terminal_value |-> r.value[3], dcf_enterprise_value |-> r.value[1]]
    ELSE NoCall

\* One run of the script (lines 17-127) for the widget values and the button
\* p whose press caused it.  An exception ends the run where it is raised.
Script(method, di, li, p) ==
    CASE method = "Discounted Cash Flow (DCF)" ->
           IF p = "Calculate DCF"
           THEN LET r == calculate_dcf(di)
                IN  IF r.status = "raised"
                    THEN [rendered |-> {"Calculate DCF"}, shown |-> r,
                          export_call |-> NoCall, csv_saved |-> FALSE]
                    ELSE [rendered |-> {"Calculate DCF", "Export DCF Results to Excel"},
                          shown |-> r, export_call |-> ExportButton(p, r),
                          csv_saved |-> FALSE]
           ELSE [rendered |-> {"Calculate DCF"}, shown |-> NoCall,
                 export_call |-> NoCall, csv_saved |-> FALSE]
      [] method = "Comparable Companies (Comps)" ->
           [rendered |-> {"Calculate Comps"},
            shown |-> IF p = "Calculate Comps"
                      THEN apply_comps(<<150, 1>>,
                               compute_median_multiple(DashboardPeers, "EV/EBITDA").value)
                      ELSE NoCall,
            export_call |-> NoCall, csv_saved |-> FALSE]
      [] method = "Leveraged Buyout (LBO)" ->
           [rendered |-> {"Calculate LBO"},
            shown |-> IF p = "Calculate LBO" THEN run_lbo_model(li) ELSE NoCall,
            export_call |-> NoCall, csv_saved |-> FALSE]
      [] method = "Data Collection" ->
           [rendered |-> {"Fetch Financial Data", "Save Data to CSV"},
            shown |-> IF p = "Fetch Financial Data" THEN Returned(<<"AAPL">>) ELSE NoCall,
            export_call |-> NoCall, csv_saved |-> (p = "Save Data to CSV")]

\* the state a run leaves behind
Rerun(method, di, li, p) ==
    LET run == Script(method, di, li, p)
    IN  /\ valuation_method' = method
        /\ dcf_inputs' = di
        /\ lbo_inputs' = li
        /\ pressed' = p
        /\ rendered' = run.rendered
        /\ shown' = run.shown
        /\ export_call' = run.export_call
        /\ csv_saved' = run.csv_saved

\* the user picks a valuation method in the sidebar
SelectMethod ==
    /\ \E m \in ValuationMethods \ {valuation_method} :
          Rerun(m, dcf_inputs, lbo_inputs, "none")
    /\ UNCHANGED <<comps_vars, dcf_vars, lbo_vars>>

\* the user changes a number input of the view on the page
EditInput ==
    /\ \/ /\ valuation_method = "Discounted Cash Flow (DCF)"
          /\ \E di \in DashboardDcfInputs \ {dcf_inputs} :
                Rerun(valuation_method, di, lbo_inputs, "none")
       \/ /\ valuation_method = "Leveraged Buyout (LBO)"
          /\ \E li \in DashboardLboInputs \ {lbo_inputs} :
                Rerun(valuation_method, dcf_inputs, li, "none")
    /\ UNCHANGED <<comps_vars, dcf_vars, lbo_vars>>

\* the user presses a button that is on the page
PressButton ==
    /\ \E b \in rendered : Rerun(valuation_method, dcf_inputs, lbo_inputs, b)
    /\ UNCHANGED <<comps_vars, dcf_vars, lbo_vars>>

DashNext == SelectMethod \/ EditInput \/ PressButton

(***************************************************************************)
(* Specifications                                                          *)
(***************************************************************************)
\* Comps_Model.py: the caller has built a peer list and picked a metric
\* (lines 45-51, 57); nothing else is running
CompsInit ==
    /\ peers \in PeerLists
    /\ metric \in Metrics
    /\ multiples = <<>>
    /\ median_ret = NoCall
    /\ comps_ret = NoCall
    /\ dcf_call = [fn |-> "none"]
    /\ dcf_ret = NoCall
    /\ lbo_args = [years |-> 0]
    /\ lbo_pc = "idle"
    /\ year = 0
    /\ annual_principal_payment = Zero
    /\ outstanding_debt = Zero
    /\ debt_schedule = <<>>
    /\ lbo_ret = NoCall
    /\ lbo_prev = NoCall
    /\ valuation_method = "Discounted Cash Flow (DCF)"
    /\ dcf_inputs = [projection_years |-> 0]
    /\ lbo_inputs = [years |-> 0]
    /\ pressed = "none"
    /\ rendered = {}
    /\ shown = NoCall
    /\ export_call = NoCall
    /\ csv_saved = FALSE

SpecComps == CompsInit /\ [][CompsNext]_vars

\* DCF_Model.py: a caller is about to call one of the functions
DcfInit ==
    /\ peers = <<>>
    /\ metric = "EV/EBITDA"
    /\ multiples = <<>>
    /\ median_ret = NoCall
    /\ comps_ret = NoCall
    /\ dcf_call \in DcfCalls
    /\ dcf_ret = NoCall
    /\ lbo_args = [years |-> 0]
    /\ lbo_pc = "idle"
    /\ year = 0
    /\ annual_principal_payment = Zero
    /\ outstanding_debt = Zero
    /\ debt_schedule = <<>>
    /\ lbo_ret = NoCall
    /\ lbo_prev = NoCall
    /\ valuation_method = "Discounted Cash Flow (DCF)"
    /\ dcf_inputs = [projection_years |-> 0]
    /\ lbo_inputs = [years |-> 0]
    /\ pressed = "none"
    /\ rendered = {}
    /\ shown = NoCall
    /\ export_call = NoCall
    /\ csv_saved = FALSE

SpecDCF == DcfInit /\ [][DcfNext]_vars

\* Models.py: no call of run_lbo_model yet
LboInit ==
    /\ peers = <<>>
    /\ metric = "EV/EBITDA"
    /\ multiples = <<>>
    /\ median_ret = NoCall
    /\ comps_ret = NoCall
    /\ dcf_call = [fn |-> "none"]
    /\ dcf_ret = NoCall
    /\ lbo_args = [years |-> 0]
    /\ lbo_pc = "idle"
    /\ year = 0
    /\ annual_principal_payment = Zero
    /\ outstanding_debt = Zero
    /\ debt_schedule = <<>>
    /\ lbo_ret = NoCall
    /\ lbo_prev = NoCall
    /\ valuation_method = "Discounted Cash Flow (DCF)"
    /\ dcf_inputs = [projection_years |-> 0]
    /\ lbo_inputs = [years |-> 0]
    /\ pressed = "none"
    /\ rendered = {}
    /\ shown = NoCall
    /\ export_call = NoCall
    /\ csv_saved = FALSE

SpecLBO == LboInit /\ [][LboNext]_vars

\* Dashboard.py: the first run of the script, the first method selected and
\* no button pressed
DashInit ==
    /\ peers = <<>>
    /\ metric = "EV/EBITDA"
    /\ multiples = <<>>
    /\ median_ret = NoCall
    /\ comps_ret = NoCall
    /\ dcf_call = [fn |-> "none"]
    /\ dcf_ret = NoCall
    /\ lbo_args = [years |-> 0]
    /\ lbo_pc = "idle"
    /\ year = 0
    /\ annual_principal_payment = Zero
    /\ outstanding_debt = Zero
    /\ debt_schedule = <<>>
    /\ lbo_ret = NoCall
    /\ lbo_prev = NoCall
    /\ valuation_method = "Discounted Cash Flow (DCF)"
    /\ dcf_inputs \in DashboardDcfInputs
    /\ lbo_inputs \in DashboardLboInputs
    /\ pressed = "none"
    /\ rendered = {"Calculate DCF"}
    /\ shown = NoCall
    /\ export_call = NoCall
    /\ csv_saved = FALSE

SpecDashboard == DashInit /\ [][DashNext]_vars

(***************************************************************************)
(* Properties of compute_median_multiple                                   *)
(***************************************************************************)
\* the positions of the peers that have a non-null value for the metric
Present(ps, m) == {i \in 1..Len(ps) : m \in DOMAIN ps[i] /\ ps[i][m] # None}

\* the k-th smallest of the present values, by counting
KthSmallest(ps, m, k) ==
    CHOOSE x \in {ps[i][m] : i \in Present(ps, m)} :
        /\ Cardinality({i \in Present(ps, m) : RLt(ps[i][m], x)}) < k
        /\ k <= Cardinality({i \in Present(ps, m) : RLe(ps[i][m], x)})

MedianOfPresent(ps, m) ==
    LET n == Cardinality(Present(ps, m))
    IN  IF n % 2 = 1 THEN KthSmallest(ps, m, (n + 1) \div 2)
        ELSE RDiv(RAdd(KthSmallest(ps, m, n \div 2), KthSmallest(ps, m, n \div 2 + 1)), Two)

\* C1: whenever at least one peer has a non-null value for the metric, the
\* call returns the median of the present values: the middle one of an odd
\* count, the mean of the two central ones of an even count, the count being
\* that of the peers that have the metric.
C1_MedianOfPresentValues ==
    (median_ret # NoCall /\ Present(peers, metric) # {}) =>
        /\ median_ret.status = "returned"
        /\ median_ret.value = MedianOfPresent(peers, metric)

\* an even count of present values among more peers, the mean not one of them
C1_Witness ==
    /\ median_ret.status = "returned"
    /\ Len(peers) = 3
    /\ Cardinality(Present(peers, metric)) = 2
    /\ median_ret.value = <<3, 2>>

\* C2: missing data never surfaces as an error: a peer without the key or
\* with None for it contributes nothing to the list the median is taken of,
\* and the call returns None exactly when no peer has the metric.
C2_MissingDataExcluded ==
    median_ret # NoCall =>
        /\ median_ret.status = "returned"
        /\ Len(multiples) = Cardinality(Present(peers, metric))
        /\ \A i \in 1..Len(multiples) : multiples[i] \in MultipleValues \cup {<<3, 1>>}
        /\ (Present(peers, metric) = {}) <=> (median_ret.value = None)

\* a list with a peer lacking the key, a peer holding None and one value
C2_Witness ==
    /\ median_ret.status = "returned"
    /\ \E i \in 1..Len(peers) : metric \notin DOMAIN peers[i]
    /\ \E i \in 1..Len(peers) : metric \in DOMAIN peers[i] /\ peers[i][metric] = None
    /\ median_ret.value \in MultipleValues

\* the lists holding the same records as ps in another order
Reorderings(ps) ==
    {[i \in 1..Len(ps) |-> ps[f[i]]] : f \in Permutations(1..Len(ps))}

\* C11: a call leaves the caller's peer list as it was, the same records in
\* the same order (the sort works on the list built inside the function),
\* and its result is the one the call returns on every reordering of the
\* same peers.
C11_InputUnchangedOrderIrrelevant ==
    [][(median_ret = NoCall /\ median_ret' # NoCall) =>
          /\ peers' = peers
          /\ \A q \in Reorderings(peers) :
                compute_median_multiple(q, metric) = median_ret']_vars

\* after a call on three peers in descending order of the metric: the local
\* list is in ascending order, the caller's list still is not
C11_Witness ==
    /\ median_ret.status = "returned"
    /\ Len(peers) = 3
    /\ Len(multiples) = 3
    /\ \A i \in 1..3 : peers[i][metric] = multiples[4 - i]
    /\ multiples[1] # multiples[3]

(***************************************************************************)
(* Properties of DCF_Model.py                                              *)
(***************************************************************************)
Returns(fn) == dcf_call.fn = fn /\ dcf_ret # NoCall

\* present value with the k-th flow (k = 1..n) at period k
RECURSIVE PresentValueFromPeriod1(_, _)
PresentValueFromPeriod1(flows, rate) ==
    IF flows = <<>> THEN Zero
    ELSE RAdd(PresentValueFromPeriod1(SubSeq(flows, 1, Len(flows) - 1), rate),
              RDiv(flows[Len(flows)], RPow(RAdd(One, rate), Len(flows))))

\* C4: discount_cash_flows returns the present value with the flows beginning
\* at period 1, the k-th flow divided by (1 + wacc)^k, and so agrees with the
\* per-year discounting of calculate_dcf on the same flows.
C4_DiscountFromPeriodOne ==
    Returns("discount_cash_flows") =>
        /\ dcf_ret.value = PresentValueFromPeriod1(dcf_call.args.cash_flows, dcf_call.args.wacc)
        /\ dcf_ret.value = RSum(DiscountedFcf(dcf_call.args.cash_flows, dcf_call.args.wacc))

C6_FailsWheneverWaccLeGrowth ==
    ((Returns("calculate_terminal_value") \/ Returns("calculate_dcf"))
        /\ RLe(dcf_call.args.wacc, dcf_call.args.perpetual_growth_rate)) =>
      dcf_ret.status = "raised"

\* C6 amended: calculate_terminal_value has no guard; it fails, by a division
\* by zero, exactly when wacc = perpetual growth, and for wacc < perpetual
\* growth returns last_fcf * (1 + g) / (wacc - g).  calculate_dcf propagates
\* the division by zero, and with n >= 1 and wacc # g returns a value.
C6_FailsOnlyWhenWaccEqGrowth ==
    LET a == dcf_call.args
    IN  /\ Returns("calculate_terminal_value") =>
              /\ (dcf_ret.status = "raised") <=> (a.wacc = a.perpetual_growth_rate)
              /\ dcf_ret.status = "raised" => dcf_ret.exc = "ZeroDivisionError"
              /\ dcf_ret.status = "returned" =>
                    RMul(dcf_ret.value, RSub(a.wacc, a.perpetual_growth_rate))
                        = RMul(a.last_fcf, RAdd(One, a.perpetual_growth_rate))
        /\ (Returns("calculate_dcf") /\ a.projection_years >= 1) =>
              /\ (dcf_ret.status = "raised") <=> (a.wacc = a.perpetual_growth_rate)
              /\ dcf_ret.status = "raised" => dcf_ret.exc = "ZeroDivisionError"

\* calculate_dcf leaves with the division by zero of the terminal value
C6_Witness ==
    /\ Returns("calculate_dcf")
    /\ dcf_call.args.projection_years >= 1
    /\ dcf_call.args.wacc = dcf_call.args.perpetual_growth_rate
    /\ dcf_ret = Raised("ZeroDivisionError")

\* C9: project_fcf returns exactly n values, the i-th being fcf0 * (1 + g)^i;
\* the first is fcf0 * (1 + g), not the base value, and each later one is
\* the previous one times (1 + g).
C9_ProjectionIsGeometric ==
    LET a == dcf_call.args
    IN  Returns("project_fcf") =>
          /\ dcf_ret.status = "returned"
          /\ DOMAIN dcf_ret.value = 1..a.years
          /\ \A i \in 1..a.years :
                /\ dcf_ret.value[i] = RMul(a.initial_fcf, RPow(RAdd(One, a.growth_rate), i))
                /\ dcf_ret.value[i] =
                      RMul(IF i = 1 THEN a.initial_fcf ELSE dcf_ret.value[i - 1],
                           RAdd(One, a.growth_rate))

\* project_fcf(100, 1/2, 3) = [150, 225, 337.5]
C9_Witness ==
    /\ Returns("project_fcf")
    /\ dcf_call.args.years = 3
    /\ dcf_ret.value = <<<<150, 1>>, <<225, 1>>, <<675, 2>>>>

(***************************************************************************)
(* Properties of run_lbo_model                                             *)
(***************************************************************************)
LboReturned == lbo_pc = "done" /\ lbo_ret.status = "returned"

\* C3 as stated: the equity cash-flow vector has length years, first element
\* -purchase_price * (1 - debt_ratio), zero interior, last element the
\* returned exit_equity_value.
C3_VectorHasLengthYears ==
    (LboReturned /\ lbo_args.years >= 1) =>
        LET cf == lbo_ret.value[1]
        IN  /\ Len(cf) = lbo_args.years
            /\ cf[1] = RNeg(RMul(lbo_args.purchase_price, RSub(One, lbo_args.debt_ratio)))
            /\ \A i \in 2..(Len(cf) - 1) : cf[i] = Zero
            /\ cf[Len(cf)] = lbo_ret.value[3]

\* C3 amended: the vector has length years + 1: the investment
\* -purchase_price * (1 - debt_ratio) at time 0, zero for the years
\* 1 .. years - 1, and the returned exit_equity_value for the last year.
C3_VectorHasLengthYearsPlusOne ==
    (LboReturned /\ lbo_args.years >= 1) =>
        LET cf == lbo_ret.value[1]
        IN  /\ Len(cf) = lbo_args.years + 1
            /\ cf[1] = RNeg(RMul(lbo_args.purchase_price, RSub(One, lbo_args.debt_ratio)))
            /\ \A i \in 2..lbo_args.years : cf[i] = Zero
            /\ cf[lbo_args.years + 1] = lbo_ret.value[3]

\* a three-year buyout: four entries, two of them interior zeros
C3_Witness ==
    /\ LboReturned
    /\ lbo_args.years = 3
    /\ Len(lbo_ret.value[1]) = 4
    /\ RLt(lbo_ret.value[1][1], Zero)
    /\ RLt(Zero, lbo_ret.value[1][4])

\* the two argument records agree on everything but interest_rate
DifferOnlyInInterestRate(a, b) ==
    /\ a.interest_rate # b.interest_rate
    /\ [a EXCEPT !.interest_rate = b.interest_rate] = b

\* C7: two calls that differ only in interest_rate have the same outcome
\* (equity cash flows, IRR, exit equity value), and the exit equity value is
\* the exit enterprise value less the final remaining debt only.
C7_InterestRateDoesNotMatter ==
    /\ (lbo_pc = "done" /\ lbo_prev # NoCall
            /\ DifferOnlyInInterestRate(lbo_prev.args, lbo_args)) =>
          lbo_ret = lbo_prev.ret
    /\ LboReturned =>
          RAdd(lbo_ret.value[3], RMax(outstanding_debt, Zero)) =
              RMul(lbo_args.exit_multiple,
                   RMul(lbo_args.initial_ebitda,
                        RPow(RAdd(One, lbo_args.ebitda_growth_rate), lbo_args.years)))

\* two finished three-year calls with debt that differ only in interest_rate
C7_Witness ==
    /\ LboReturned
    /\ lbo_prev # NoCall
    /\ DifferOnlyInInterestRate(lbo_prev.args, lbo_args)
    /\ lbo_args.years = 3
    /\ RLt(Zero, InitialDebt(lbo_args))
    /\ debt_schedule[1].interest_expense # Zero

C8_ExportRunCallsExport ==
    pressed = "Export DCF Results to Excel" =>
        LET r == calculate_dcf(dcf_inputs)
        IN  export_call = [filename |-> "outputs/dcf_results.xlsx",
                           fcf_projections |-> r.value[2],
                           terminal_value |-> r.value[3],
                           dcf_enterprise_value |-> r.value[1]]

\* C12: a zero horizon is passed on unvalidated and ends in an error, not in
\* a result: calculate_dcf with projection_years = 0 raises IndexError at
\* the last element of the empty projection, run_lbo_model with years = 0
\* raises ZeroDivisionError at initial_debt / years, and a "Calculate" run of
\* the dashboard with 0 in the horizon input shows that error and no tuple.
C12_ZeroHorizonFails ==
    /\ (pressed = "Calculate DCF" /\ dcf_inputs.projection_years = 0) =>
          /\ shown = Raised("IndexError")
          /\ export_call = NoCall
    /\ (pressed = "Calculate LBO" /\ lbo_inputs.years = 0) =>
          shown = Raised("ZeroDivisionError")
    /\ \A a \in DcfArgs :
          a.projection_years = 0 => calculate_dcf(a) = Raised("IndexError")
    /\ \A a \in LboArgs :
          a.years = 0 => run_lbo_model(a) = Raised("ZeroDivisionError")

\* the user has typed 0 into "Projection Years" and pressed "Calculate DCF"
C12_Witness ==
    /\ valuation_method = "Discounted Cash Flow (DCF)"
    /\ pressed = "Calculate DCF"
    /\ dcf_inputs.projection_years = 0
    /\ shown.status = "raised"
    /\ rendered = {"Calculate DCF"}

====
